---- MODULE Spec2Model ----
(***************************************************************************)
(* A model of the DSA-sheet front end: the topic view (TopicDetail, in     *)
(* src/src/components/Navbar.js) with its optimistic completion toggle,    *)
(* and the Dashboard (src/src/pages/Dashboard.js) with its refresh and     *)
(* statistics.                                                             *)
(*                                                                         *)
(* React state is modelled by one variable per useState cell.  A handler   *)
(* runs to its next await as one step; the continuation after the await    *)
(* (try-rest / catch / finally) is one more step.  React applies the       *)
(* functional updaters in the order they were queued and commits before    *)
(* the next DOM event is delivered, so every step sees the state left by   *)
(* the previous one.                                                       *)
(***************************************************************************)
EXTENDS Integers, Sequences, FiniteSets, TLC

\* ------------------------------------------------------------ bounds

\* Problem identifiers are 1..NumProblems.
NumProblems == 2
\* Longest progress list the backend returns.
MaxLoad == 2
\* Number of toggles (POST /progress/:id) started in one run of the topic view.
MaxCalls == 3
\* Largest topic whose statistics are computed.
MaxStatProblems == 40
\* Most topics GET /topics returns, and most problems in one of them.
MaxTopics == 2
MaxTopicSize == 1
\* Longest progress list GET /progress returns to the Dashboard.
MaxDashLoad == 1
\* Refreshes of the Dashboard started after the one on mount.
MaxRefresh == 1

Problems == 1..NumProblems

VARIABLES
    \* TopicDetail (Navbar.js 58-63)
    topic,              \* useState(null): [found, problems]
    userProgress,       \* useState([]): sequence of progress records
    loading,            \* useState(true)
    updatingProblems,   \* useState(new Set())
    \* the environment of TopicDetail
    calls,              \* POST /progress/:id requests awaiting their response
    nextCall,           \* number of POSTs issued so far
    accepted,           \* number of POSTs the backend answered with success
    dispatched,         \* number of 'progressUpdated' events dispatched on window
    backendCompleted,   \* per problem: the flag last loaded from, or accepted by, the backend
    lastStep,           \* the handler step that ran last: [type, problemId, completed]
    \* the statistics a render computed last: [view, total, completed, percentage]
    rendered,
    \* Dashboard (Dashboard.js 6-13)
    topics,             \* useState([]): topics with a completed flag on each problem
    stats,              \* useState({total: 0, completed: 0, remaining: 0, percentage: 0})
    dashLoading,        \* useState(true)
    \* the environment of the Dashboard
    srvTopics,          \* what GET /topics answers with
    srvStats,           \* what GET /progress/stats answers with
    srvProgress,        \* what GET /progress answers with
    fetches,            \* the runs of fetchData awaiting their responses
    nextFetch,          \* number of runs of fetchData started so far
    lastFetch           \* the run that settled last: [id, topicsOk, statsOk, progressOk]

topicVars == <<topic, userProgress, loading, updatingProblems,
               calls, nextCall, accepted, dispatched, backendCompleted, lastStep>>

dashVars == <<topics, stats, dashLoading, srvTopics, srvStats, srvProgress,
              fetches, nextFetch, lastFetch>>

vars == <<topicVars, rendered, dashVars>>

\* ------------------------------------------------------------ values

\* A progress record {problemId: {_id}, completed, _id}.  Of _id only the
\* prefix is ever read (startsWith('temp-')): "db" stands for an identifier
\* assigned by the backend, "temp" for `temp-${problemId}-${Date.now()}`.
ProgressRecord(p, c, i) == [problemId |-> p, completed |-> c, id |-> i]

BackendRecords == {ProgressRecord(p, c, "db") : p \in Problems, c \in BOOLEAN}

SeqsUpTo(S, n) == UNION {[1..k -> S] : k \in 0..n}

\* The bodies GET /progress may answer with; duplicates are not excluded by the client.
ProgressResponses == SeqsUpTo(BackendRecords, MaxLoad)

\* topic === null
NoTopic == [found |-> FALSE, problems |-> <<>>]

\* The bodies GET /topics/:id may answer with: a topic listing problems 1..n.
TopicResponses == {[found |-> TRUE, problems |-> [i \in 1..n |-> i]] : n \in 1..NumProblems}

Step(t, p, c) == [type |-> t, problemId |-> p, completed |-> c]

\* ------------------------------------------------------------ pure helpers

Range(s) == {s[i] : i \in DOMAIN s}

FindIndexLast(prev, problemId) ==
    LET hits == {i \in DOMAIN prev : prev[i].problemId = problemId}
    IN  IF hits = {} THEN 0 ELSE CHOOSE i \in hits : \A j \in hits : i >= j

\* prev.find(p => p.problemId._id === problemId): the index of the first
\* match, 0 for undefined.
FindIndex(prev, problemId) ==
    LET hits == {i \in DOMAIN prev : prev[i].problemId = problemId}
    IN  IF hits = {} THEN 0 ELSE CHOOSE i \in hits : \A j \in hits : i <= j

\* isProblemCompleted on a given list.
IsCompletedIn(prev, problemId) ==
    LET i == FindIndex(prev, problemId)
    IN  IF i = 0 THEN FALSE ELSE prev[i].completed

isProblemCompleted(problemId) == IsCompletedIn(userProgress, problemId)

StartsWithTemp(id) == id = "temp"

OptimisticAlwaysAppend(prev, problemId, newCompletedState) ==
    Append(prev, ProgressRecord(problemId, newCompletedState, "temp"))

\* The updater of the optimistic setUserProgress.
OptimisticUpdate(prev, problemId, newCompletedState) ==
    IF FindIndex(prev, problemId) # 0
    THEN [i \in DOMAIN prev |->
             IF prev[i].problemId = problemId
             THEN [prev[i] EXCEPT !.completed = newCompletedState]
             ELSE prev[i]]
    ELSE Append(prev, ProgressRecord(problemId, newCompletedState, "temp"))

\* The updater of the reverting setUserProgress in the catch block.
RevertUpdate(prev, problemId, completed) ==
    SelectSeq([i \in DOMAIN prev |->
                  IF prev[i].problemId = problemId
                  THEN [prev[i] EXCEPT !.completed = completed]
                  ELSE prev[i]],
              LAMBDA progress : ~StartsWithTemp(progress.id))

AddUpdating(prev, problemId) == prev \cup {problemId}

FinallyKeepsUpdating(prev, problemId) == prev

\* The updater of setUpdatingProblems in the finally block.
RemoveUpdating(prev, problemId) == prev \ {problemId}

dispatchEventTwice(n) == n + 2

\* window.dispatchEvent(new CustomEvent('progressUpdated'))
dispatchEvent(n) == n + 1

CheckboxNeverDisabled(problemId) == FALSE

\* disabled={isUpdating}, isUpdating = updatingProblems.has(problem._id)
CheckboxDisabled(problemId) == problemId \in updatingProblems

\* The checkboxes on the page: none while loading or when the topic is null.
Rendered(problemId) ==
    /\ ~loading
    /\ topic.found
    /\ problemId \in Range(topic.problems)

\* ------------------------------------------------------------ JavaScript numbers

\* A JavaScript number is an IEEE 754 binary64.  A positive one is modelled by
\* its 53-bit significand, held in three limbs (17, 18 and 18 bits), and its
\* exponent: [zero |-> FALSE, hi, mid, lo, e] is
\*     (hi * 2^36 + mid * 2^18 + lo) * 2^(e - 52),   2^16 <= hi < 2^17,
\* that is, a number in [2^e, 2^(e+1)).  Every operation rounds its exact
\* result to the nearest such number, ties to the even significand.

RECURSIVE Pow2(_)
Pow2(n) == IF n = 0 THEN 1 ELSE 2 * Pow2(n - 1)

Limb == Pow2(18)

TopLimb == Pow2(17)

NumZero == [zero |-> TRUE, hi |-> 0, mid |-> 0, lo |-> 0, e |-> 0]

\* The significand hi:mid:lo at exponent e, rounded up by one unit when `up`.
RoundSignificand(hi, mid, lo, e, up) ==
    IF ~up THEN [zero |-> FALSE, hi |-> hi, mid |-> mid, lo |-> lo, e |-> e]
    ELSE IF lo + 1 < Limb
         THEN [zero |-> FALSE, hi |-> hi, mid |-> mid, lo |-> lo + 1, e |-> e]
    ELSE IF mid + 1 < Limb
         THEN [zero |-> FALSE, hi |-> hi, mid |-> mid + 1, lo |-> 0, e |-> e]
    ELSE IF hi + 1 < TopLimb
         THEN [zero |-> FALSE, hi |-> hi + 1, mid |-> 0, lo |-> 0, e |-> e]
    ELSE [zero |-> FALSE, hi |-> TopLimb \div 2, mid |-> 0, lo |-> 0, e |-> e + 1]

\* The exponent of a/b for integers a, b > 0: 2^e <= a/b < 2^(e+1).
RECURSIVE ExponentOf(_, _)
ExponentOf(a, b) ==
    IF a < b THEN ExponentOf(2 * a, b) - 1
    ELSE IF a >= 2 * b THEN ExponentOf(a, 2 * b) + 1
    ELSE 0

\* a / b on the JavaScript numbers holding the integers a >= 0 and b > 0:
\* long division of num/den in [1, 2), one limb at a time.
NumDivide(a, b) ==
    IF a = 0 THEN NumZero
    ELSE LET e == ExponentOf(a, b)
             num == IF e < 0 THEN a * Pow2(-e) ELSE a
             den == IF e > 0 THEN b * Pow2(e) ELSE b
             hi == (num * (TopLimb \div 2)) \div den
             r1 == (num * (TopLimb \div 2)) % den
             mid == (r1 * Limb) \div den
             r2 == (r1 * Limb) % den
             lo == (r2 * Limb) \div den
             r3 == (r2 * Limb) % den
             up == 2 * r3 > den \/ (2 * r3 = den /\ (lo % 2) = 1)
         IN  RoundSignificand(hi, mid, lo, e, up)

\* The number of bits by which n exceeds the top limb's 17.
RECURSIVE ExtraBits(_)
ExtraBits(n) == IF n < TopLimb THEN 0 ELSE 1 + ExtraBits(n \div 2)

\* x * k on JavaScript numbers, for an integer 0 < k < 2^13.
NumTimes(x, k) ==
    IF x.zero THEN NumZero
    ELSE LET p3 == x.lo * k
             p2 == (x.mid * k) + (p3 \div Limb)
             p1 == (x.hi * k) + (p2 \div Limb)
             s == ExtraBits(p1)
             d == Pow2(s)
             hi == p1 \div d
             mid == ((p1 % d) * (Limb \div d)) + ((p2 % Limb) \div d)
             lo == (((p2 % Limb) % d) * (Limb \div d)) + ((p3 % Limb) \div d)
             dropped == (p3 % Limb) % d
             up == /\ s > 0
                   /\ 2 * dropped >= d
                   /\ (2 * dropped > d \/ (lo % 2) = 1)
         IN  RoundSignificand(hi, mid, lo, x.e + s, up)

\* Math.round on a number 0 <= x < 2^16: the nearest integer, a fraction of
\* one half going up.  The first bit after the binary point decides.
MathRound(x) ==
    IF x.zero \/ x.e < -1 THEN 0
    ELSE IF x.e = -1 THEN 1
    ELSE (x.hi \div Pow2(16 - x.e)) + ((x.hi \div Pow2(15 - x.e)) % 2)

\* totalProblems > 0 ? Math.round((completedProblems / totalProblems) * 100) : 0
Percentage(completedProblems, totalProblems) ==
    IF totalProblems > 0
    THEN MathRound(NumTimes(NumDivide(completedProblems, totalProblems), 100))
    ELSE 0

\* ------------------------------------------------------------ TopicDetail

TopicDetailInit ==
    /\ topic = NoTopic
    /\ userProgress = <<>>
    /\ loading = TRUE
    /\ updatingProblems = {}
    /\ calls = {}
    /\ nextCall = 0
    /\ accepted = 0
    /\ dispatched = 0
    /\ backendCompleted = [p \in Problems |-> FALSE]
    /\ lastStep = Step("mount", 0, FALSE)

\* fetchData: both GETs succeeded.
FetchDataOk(topicData, progressData) ==
    /\ loading
    /\ topic' = topicData
    /\ userProgress' = progressData
    /\ loading' = FALSE
    /\ backendCompleted' = [p \in Problems |-> IsCompletedIn(progressData, p)]
    /\ lastStep' = Step("load", 0, FALSE)
    /\ UNCHANGED <<updatingProblems, calls, nextCall, accepted, dispatched>>
    /\ UNCHANGED <<rendered, dashVars>>

\* fetchData: Promise.all rejected; only the finally block changes state.
FetchDataFails ==
    /\ loading
    /\ loading' = FALSE
    /\ lastStep' = Step("loadFailed", 0, FALSE)
    /\ UNCHANGED <<topic, userProgress, updatingProblems, calls, nextCall,
                   accepted, dispatched, backendCompleted>>
    /\ UNCHANGED <<rendered, dashVars>>

\* A click on a disabled checkbox: the browser delivers no change event.
ClickDisabledCheckbox(problemId) ==
    /\ Rendered(problemId)
    /\ CheckboxDisabled(problemId)
    /\ lastStep' = Step("blocked", problemId, isProblemCompleted(problemId))
    /\ UNCHANGED <<topic, userProgress, loading, updatingProblems, calls,
                   nextCall, accepted, dispatched, backendCompleted>>
    /\ UNCHANGED <<rendered, dashVars>>

\* onChange={() => toggleProblemProgress(problem._id, isCompleted)} up to the await.
ToggleStart(problemId) ==
    /\ Rendered(problemId)
    /\ ~CheckboxDisabled(problemId)
    /\ nextCall < MaxCalls
    /\ LET completed == isProblemCompleted(problemId)
           newCompletedState == ~completed
       IN  /\ updatingProblems' = AddUpdating(updatingProblems, problemId)
           /\ userProgress' = OptimisticUpdate(userProgress, problemId, newCompletedState)
           /\ calls' = calls \cup {[id |-> nextCall + 1, problemId |-> problemId,
                                    completed |-> completed]}
           /\ nextCall' = nextCall + 1
           /\ lastStep' = Step("toggle", problemId, completed)
    /\ UNCHANGED <<topic, loading, accepted, dispatched, backendCompleted>>
    /\ UNCHANGED <<rendered, dashVars>>

\* The POST resolved: the rest of the try block, then finally.
PostSucceeds(c) ==
    /\ c \in calls
    /\ calls' = calls \ {c}
    /\ accepted' = accepted + 1
    /\ dispatched' = dispatchEvent(dispatched)
    /\ backendCompleted' = [backendCompleted EXCEPT ![c.problemId] = ~c.completed]
    /\ updatingProblems' = RemoveUpdating(updatingProblems, c.problemId)
    /\ lastStep' = Step("success", c.problemId, c.completed)
    /\ UNCHANGED <<topic, userProgress, loading, nextCall>>
    /\ UNCHANGED <<rendered, dashVars>>

\* The POST rejected: the catch block, then finally.
PostFails(c) ==
    /\ c \in calls
    /\ calls' = calls \ {c}
    /\ userProgress' = RevertUpdate(userProgress, c.problemId, c.completed)
    /\ updatingProblems' = RemoveUpdating(updatingProblems, c.problemId)
    /\ lastStep' = Step("failure", c.problemId, c.completed)
    /\ UNCHANGED <<topic, loading, nextCall, accepted, dispatched, backendCompleted>>
    /\ UNCHANGED <<rendered, dashVars>>


Next ==
    \/ \E t \in TopicResponses, r \in ProgressResponses : FetchDataOk(t, r)
    \/ FetchDataFails
    \/ \E p \in Problems : ClickDisabledCheckbox(p)
    \/ \E p \in Problems : ToggleStart(p)
    \/ \E c \in calls : PostSucceeds(c)
    \/ \E c \in calls : PostFails(c)



\* ------------------------------------------------------------ statistics

Stats(t, c, r, p) == [total |-> t, completed |-> c, remaining |-> r, percentage |-> p]

ZeroStats == Stats(0, 0, 0, 0)

NoRender == [view |-> "none", total |-> 0, completed |-> 0, percentage |-> 0]

\* TopicDetail: completedProblems, totalProblems and percentage of the render.
TopicDetailStats ==
    LET completedProblems ==
            Len(SelectSeq(topic.problems, LAMBDA problem : isProblemCompleted(problem)))
        totalProblems == Len(topic.problems)
    IN  [view |-> "topic", total |-> totalProblems, completed |-> completedProblems,
         percentage |-> Percentage(completedProblems, totalProblems)]

\* Dashboard: the Set of the problems some record marks completed.
CompletedProblemsSet(progressData) ==
    {progressData[i].problemId : i \in {j \in DOMAIN progressData : progressData[j].completed}}

\* Dashboard: topicsData.map(topic => ({...topic, problems: topic.problems.map(...)})).
TopicsWithProgress(topicsData, completedProblems) ==
    [k \in DOMAIN topicsData |->
        [topicsData[k] EXCEPT !.problems =
            [i \in DOMAIN @ |-> [id |-> @[i], completed |-> @[i] \in completedProblems]]]]

\* topicsData.map throws a TypeError on a topic without a problems array.
MapThrows(topicsData) == \E k \in DOMAIN topicsData : ~topicsData[k].hasProblems

\* Dashboard: the figures of one topic card.
TopicCardStats(t) ==
    LET totalProblems == IF t.hasProblems THEN Len(t.problems) ELSE 0
        completedProblems ==
            IF t.hasProblems
            THEN Len(SelectSeq(t.problems, LAMBDA problem : problem.completed))
            ELSE 0
    IN  [view |-> "card", total |-> totalProblems, completed |-> completedProblems,
         percentage |-> Percentage(completedProblems, totalProblems)]

\* topicsData.reduce((total, topic) => total + (topic.problems ? topic.problems.length : 0), 0)
RECURSIVE TotalProblems(_)
TotalProblems(topicsData) ==
    IF topicsData = <<>> THEN 0
    ELSE TotalProblems(SubSeq(topicsData, 1, Len(topicsData) - 1))
         + (IF topicsData[Len(topicsData)].hasProblems
            THEN Len(topicsData[Len(topicsData)].problems)
            ELSE 0)

\* userProgress.filter(p => p.completed).length
CompletedCount(progressData) ==
    Len(SelectSeq(progressData, LAMBDA p : p.completed))

\* The statistics fetchData computes itself.
LocalStats(topicsData, progressData) ==
    LET totalProblems == TotalProblems(topicsData)
        completedCount == CompletedCount(progressData)
    IN  Stats(totalProblems, completedCount, totalProblems - completedCount,
              Percentage(completedCount, totalProblems))

SelectStatsAlwaysLocal(statsData, topicsData, progressData) ==
    LocalStats(topicsData, progressData)

\* if (statsResponse.data && statsResponse.data.total > 0) ... else ...
SelectStats(statsData, topicsData, progressData) ==
    IF statsData.present /\ statsData.data.total > 0
    THEN statsData.data
    ELSE LocalStats(topicsData, progressData)

\* ------------------------------------------------------------ Dashboard

\* The problems of the k-th topic are numbered on from those of the topics before it.
RECURSIVE Offset(_, _)
Offset(sizes, k) ==
    IF k = 1 THEN 0
    ELSE Offset(sizes, k - 1) + (IF sizes[k - 1] < 0 THEN 0 ELSE sizes[k - 1])

\* The topic list with the given sizes; a size of -1 is a topic without a problems array.
TopicList(sizes) ==
    [k \in DOMAIN sizes |->
        [id |-> k,
         hasProblems |-> sizes[k] >= 0,
         problems |-> [i \in 1..sizes[k] |-> Offset(sizes, k) + i]]]

TopicsResponses == {TopicList(sizes) : sizes \in SeqsUpTo((-1)..MaxTopicSize, MaxTopics)}

DashProgressResponses == SeqsUpTo(BackendRecords, MaxDashLoad)

\* response.data of GET /progress/stats: absent, all zero, or figures of the backend's own.
StatsResponses ==
    {[present |-> FALSE, data |-> ZeroStats],
     [present |-> TRUE, data |-> ZeroStats],
     [present |-> TRUE, data |-> Stats(50, 20, 30, 40)]}

StatsFallbackWithFigures == [present |-> TRUE, data |-> Stats(50, 20, 30, 40)]

\* .catch(() => ({ data: { total: 0, completed: 0, remaining: 0, percentage: 0 } }))
StatsFallback == [present |-> TRUE, data |-> ZeroStats]

Fetch(f, okT, okS, okP) == [id |-> f, topicsOk |-> okT, statsOk |-> okS, progressOk |-> okP]

NoFetch == Fetch(0, FALSE, FALSE, FALSE)

\* The Dashboard is not mounted.
DashboardIdle ==
    /\ topics = <<>>
    /\ stats = ZeroStats
    /\ dashLoading = TRUE
    /\ srvTopics = <<>>
    /\ srvStats = StatsFallback
    /\ srvProgress = <<>>
    /\ fetches = {}
    /\ nextFetch = 0
    /\ lastFetch = NoFetch

\* The Dashboard has mounted and the effect has started the first fetchData.
DashboardInit ==
    /\ topics = <<>>
    /\ stats = ZeroStats
    /\ dashLoading = TRUE
    /\ srvTopics \in TopicsResponses
    /\ srvStats \in StatsResponses
    /\ srvProgress \in DashProgressResponses
    /\ fetches = {1}
    /\ nextFetch = 1
    /\ lastFetch = NoFetch

\* fetchData up to its await.
StartFetch ==
    /\ nextFetch < MaxRefresh + 1
    /\ fetches' = fetches \cup {nextFetch + 1}
    /\ nextFetch' = nextFetch + 1
    /\ UNCHANGED <<topics, stats, dashLoading, srvTopics, srvStats, srvProgress, lastFetch>>
    /\ UNCHANGED <<topicVars, rendered>>

\* window 'focus' listener
HandleFocus == StartFetch

\* window 'progressUpdated' listener
HandleProgressUpdate == StartFetch

\* The Refresh button, on the page once loading is false.
ClickRefresh == ~dashLoading /\ StartFetch

\* The continuation of fetchData once Promise.all has settled: the rest of
\* the try block or the catch block, then finally.
FetchSettles(f, okT, okS, okP) ==
    /\ f \in fetches
    /\ fetches' = fetches \ {f}
    /\ LET statsData == IF okS THEN srvStats ELSE StatsFallback
           progressData == IF okP THEN srvProgress ELSE <<>>
       IN  IF ~okT \/ MapThrows(srvTopics)
           THEN /\ topics' = topics
                /\ stats' = ZeroStats
           ELSE /\ topics' = TopicsWithProgress(srvTopics, CompletedProblemsSet(progressData))
                /\ stats' = SelectStats(statsData, srvTopics, progressData)
    /\ dashLoading' = FALSE
    /\ lastFetch' = Fetch(f, okT, okS, okP)
    /\ UNCHANGED <<srvTopics, srvStats, srvProgress, nextFetch>>
    /\ UNCHANGED <<topicVars, rendered>>

TopicDetailIdle ==
    /\ topic = NoTopic
    /\ userProgress = <<>>
    /\ loading = TRUE
    /\ updatingProblems = {}
    /\ calls = {}
    /\ nextCall = 0
    /\ accepted = 0
    /\ dispatched = 0
    /\ backendCompleted = [p \in Problems |-> FALSE]
    /\ lastStep = [type |-> "unmounted", problemId |-> 0, completed |-> FALSE]

InitDash == DashboardInit /\ TopicDetailIdle /\ rendered = NoRender

NextDash ==
    \/ HandleFocus
    \/ HandleProgressUpdate
    \/ ClickRefresh
    \/ \E f \in fetches, okT, okS, okP \in BOOLEAN : FetchSettles(f, okT, okS, okP)

SpecDash == InitDash /\ [][NextDash]_vars

\* ------------------------------------------------------------ the statistics alone

\* A topic of n problems.
TopicOf(n) == [found |-> TRUE, problems |-> [i \in 1..n |-> i]]

\* The list holding one completed record for each of the problems 1..c.
FirstCompleted(c) == [i \in 1..c |-> ProgressRecord(i, TRUE, "db")]

\* The inputs: any topic with any short progress list, or with its first c problems completed.
InitStats ==
    /\ \E n \in 0..MaxStatProblems :
           /\ topic = TopicOf(n)
           /\ \/ userProgress \in ProgressResponses
              \/ \E c \in 0..n : userProgress = FirstCompleted(c)
    /\ loading = FALSE
    /\ updatingProblems = {}
    /\ calls = {}
    /\ nextCall = 0
    /\ accepted = 0
    /\ dispatched = 0
    /\ backendCompleted = [p \in Problems |-> FALSE]
    /\ lastStep = [type |-> "load", problemId |-> 0, completed |-> FALSE]
    /\ rendered = NoRender
    /\ DashboardIdle

\* The render of TopicDetail.
RenderTopicDetail ==
    /\ ~loading
    /\ topic.found
    /\ rendered' = TopicDetailStats
    /\ UNCHANGED <<topicVars, dashVars>>

\* The render of the Dashboard card of the same topic under the same progress list.
RenderTopicCard ==
    /\ rendered' =
           TopicCardStats(
               TopicsWithProgress(
                   <<[id |-> 1, hasProblems |-> TRUE, problems |-> topic.problems]>>,
                   CompletedProblemsSet(userProgress))[1])
    /\ UNCHANGED <<topicVars, dashVars>>

NextStats == RenderTopicDetail \/ RenderTopicCard

SpecStats == InitStats /\ [][NextStats]_vars

\* ------------------------------------------------------------ the topic view

Init == TopicDetailInit /\ rendered = NoRender /\ DashboardIdle

Spec == Init /\ [][Next]_vars

\* ------------------------------------------------------------ claims on the topic view

HasRecord(prev, problemId) == \E i \in DOMAIN prev : prev[i].problemId = problemId

RecordsOf(prev, problemId) == {i \in DOMAIN prev : prev[i].problemId = problemId}

AtMostOneRecordPerProblem(prev) ==
    \A i, j \in DOMAIN prev : prev[i].problemId = prev[j].problemId => i = j

\* A step of a toggle on problemId: its start, its success or its failure.
ToggleStepOn(problemId) ==
    \/ ToggleStart(problemId)
    \/ \E c \in calls : c.problemId = problemId /\ (PostSucceeds(c) \/ PostFails(c))

\* C1: once a toggle whose POST failed has resolved, isCompleted of its
\* problem equals the value it had immediately before the toggle was requested.
C1_RollbackRestoresCompletion ==
    lastStep.type = "failure"
        => isProblemCompleted(lastStep.problemId) = lastStep.completed

\* C2: no step of a toggle on P changes isCompleted(Q) or removes Q's record,
\* for any Q other than P.
C2_TogglesIndependent ==
    [][\A p \in Problems :
          ToggleStepOn(p) =>
              \A q \in Problems \ {p} :
                  /\ IsCompletedIn(userProgress', q) = IsCompletedIn(userProgress, q)
                  /\ HasRecord(userProgress, q) => HasRecord(userProgress', q)]_vars

C4_NotifiedOncePerSuccess == dispatched = accepted

\* C4 witness: of two resolved toggles one succeeded and one failed, and one event went out.
C4_Witness ==
    /\ calls = {}
    /\ nextCall = 2
    /\ accepted = 1
    /\ dispatched = 1

\* C5: the in-flight set holds exactly the problems with a POST awaiting its response.
C5_InFlightExact == updatingProblems = {c.problemId : c \in calls}

\* C5 witness: a toggle has just failed and left the set while another is still pending.
C5_Witness ==
    /\ lastStep.type = "failure"
    /\ lastStep.problemId \notin updatingProblems
    /\ updatingProblems # {}

\* C6: a toggle step taken from a list with at most one record per problem
\* leaves a list with at most one record per problem.
C6_AtMostOneRecord ==
    [][(\E p \in Problems : ToggleStepOn(p))
           => (AtMostOneRecordPerProblem(userProgress)
                   => AtMostOneRecordPerProblem(userProgress'))]_vars

\* C6 witness: after two toggles the list holds a backend record and a
\* temporary one, one per problem.
C6_Witness ==
    /\ AtMostOneRecordPerProblem(userProgress)
    /\ nextCall >= 2
    /\ \E i \in DOMAIN userProgress : StartsWithTemp(userProgress[i].id)
    /\ \E i \in DOMAIN userProgress : ~StartsWithTemp(userProgress[i].id)

RoundHalfUpPercent(c, n) == (200 * c + n) \div (2 * n)

\* Whether the view that rendered counts problem p as completed.
CompletedInView(p) ==
    IF rendered.view = "topic"
    THEN isProblemCompleted(p)
    ELSE \E j \in DOMAIN userProgress :
             userProgress[j].problemId = p /\ userProgress[j].completed

\* C8: the statistics of a topic are its number of problems, the number of
\* them that are completed, and round-half-up of completed / total * 100 (0 for
\* no problems); so 0 <= completed <= total and 0 <= percentage <= 100.
C8_TopicStats ==
    rendered.view # "none" =>
        LET n == Len(topic.problems)
            c == Cardinality({i \in 1..n : CompletedInView(topic.problems[i])})
        IN  /\ rendered.total = n
            /\ rendered.completed = c
            /\ rendered.percentage = (IF n = 0 THEN 0 ELSE RoundHalfUpPercent(c, n))
            /\ 0 <= rendered.completed /\ rendered.completed <= rendered.total
            /\ 0 <= rendered.percentage /\ rendered.percentage <= 100

RECURSIVE SumSeq(_)
SumSeq(q) == IF q = <<>> THEN 0 ELSE q[1] + SumSeq(Tail(q))

\* The last run of fetchData got the topics and ran its try block to the end.
FetchCompleted == lastFetch.id # 0 /\ lastFetch.topicsOk /\ ~MapThrows(srvTopics)

\* The last run of fetchData got statistics with a total above zero from the backend.
RemoteStatsUsable == lastFetch.statsOk /\ srvStats.present /\ srvStats.data.total > 0

\* What the last run of fetchData took for the progress list.
ProgressUsed == IF lastFetch.progressOk THEN srvProgress ELSE <<>>

\* C9: the locally computed global statistics are the sums of the per-topic
\* figures, with the percentage rounded half up, for every progress list.
C9_LocalStatsAreTopicSums ==
    (FetchCompleted /\ ~RemoteStatsUsable) =>
        LET total == SumSeq([k \in DOMAIN topics |-> TopicCardStats(topics[k]).total])
            completed == SumSeq([k \in DOMAIN topics |-> TopicCardStats(topics[k]).completed])
        IN  /\ stats.total = total
            /\ stats.completed = completed
            /\ stats.percentage = (IF total = 0 THEN 0 ELSE RoundHalfUpPercent(completed, total))

\* C10 as stated: after every refresh the displayed statistics are the
\* backend's if and only if the stats fetch succeeded with a total above zero,
\* and the locally computed ones otherwise (read in the claim's favour: local
\* figures are asked for only where the topics they are computed from arrived).
C10_RemoteIffUsable ==
    lastFetch.id # 0 =>
        /\ RemoteStatsUsable => stats = srvStats.data
        /\ (~RemoteStatsUsable /\ FetchCompleted)
               => stats = LocalStats(srvTopics, ProgressUsed)

\* C10 as amended: after a refresh that got the topics and ran to the end, the
\* displayed statistics are the backend's when the stats fetch succeeded with
\* a total above zero and the locally computed ones otherwise; after a refresh
\* that did not, they are the zero defaults.
C10_RemoteIffUsableWhenCompleted ==
    lastFetch.id # 0 =>
        /\ (FetchCompleted /\ RemoteStatsUsable) => stats = srvStats.data
        /\ (FetchCompleted /\ ~RemoteStatsUsable) => stats = LocalStats(srvTopics, ProgressUsed)
        /\ ~FetchCompleted => stats = ZeroStats

\* C10 witness: the backend has statistics with a total above zero, the stats
\* fetch of the last refresh failed, and the local figures are on display.
C10_Witness ==
    /\ FetchCompleted
    /\ ~lastFetch.statsOk
    /\ srvStats.present /\ srvStats.data.total > 0
    /\ stats.total > 0
    /\ stats.completed > 0
    /\ stats # srvStats.data

\* ------------------------------------------------------------ the initial loads

\* The router has mounted one of the two pages and its effect has started fetchData.
InitLoad ==
    /\ \/ TopicDetailInit /\ DashboardIdle
       \/ DashboardInit /\ TopicDetailIdle
    /\ rendered = NoRender

TopicDetailMounted == lastStep.type # "unmounted"

DashboardMounted == nextFetch > 0

\* Promise.all of TopicDetail's fetchData settles.
TopicLoadSettles ==
    /\ TopicDetailMounted
    /\ \/ \E t \in TopicResponses, r \in ProgressResponses : FetchDataOk(t, r)
       \/ FetchDataFails

\* Promise.all of the Dashboard's first fetchData settles.
DashLoadSettles == \E okT, okS, okP \in BOOLEAN : FetchSettles(1, okT, okS, okP)

NextLoad == TopicLoadSettles \/ DashLoadSettles

\* Every request is answered or fails in the end, so each Promise.all settles.
SpecLoad ==
    /\ InitLoad
    /\ [][NextLoad]_vars
    /\ WF_vars(TopicLoadSettles)
    /\ WF_vars(DashLoadSettles)

\* ------------------------------------------------------------ claims on the initial loads

\* What the topic view holds once its load has settled.
TopicViewDegrades ==
    /\ lastStep.type = "loadFailed" => topic = NoTopic /\ userProgress = <<>>
    /\ lastStep.type = "load" =>
           /\ topic \in TopicResponses
           /\ userProgress \in ProgressResponses
           /\ \A p \in Problems : isProblemCompleted(p) = backendCompleted[p]

\* The progress list the first Dashboard load may use.
LoadProgressUsed == IF lastFetch.progressOk THEN srvProgress ELSE <<>>

\* What the Dashboard holds once its first load has settled: nothing of the
\* topics unless they arrived, no completed flag unless the progress list
\* arrived, and the backend's statistics only if they arrived.
DashViewDegrades ==
    /\ topics =
           IF lastFetch.topicsOk /\ ~MapThrows(srvTopics)
           THEN TopicsWithProgress(srvTopics, CompletedProblemsSet(LoadProgressUsed))
           ELSE <<>>
    /\ stats =
           IF ~lastFetch.topicsOk \/ MapThrows(srvTopics) THEN ZeroStats
           ELSE IF lastFetch.statsOk /\ srvStats.present /\ srvStats.data.total > 0
                THEN srvStats.data
           ELSE LocalStats(srvTopics, LoadProgressUsed)

\* C11: whichever fetches of an initial load fail, the load of the mounted page
\* ends with loading false, and from then on the page holds only its empty or
\* zero defaults or values derived from the responses that arrived.
C11_LoadDegrades ==
    /\ <>[]((TopicDetailMounted => ~loading) /\ (DashboardMounted => ~dashLoading))
    /\ [](TopicDetailMounted /\ ~loading => TopicViewDegrades)
    /\ [](lastFetch.id = 1 => ~dashLoading /\ DashViewDegrades)

\* C11 witness: on the Dashboard the topics arrived while the statistics and a
\* progress list with a completed record did not.
C11_Witness ==
    /\ ~dashLoading
    /\ lastFetch.id = 1
    /\ lastFetch.topicsOk /\ ~lastFetch.statsOk /\ ~lastFetch.progressOk
    /\ topics # <<>>
    /\ srvStats.data.total > 0
    /\ \E i \in DOMAIN srvProgress : srvProgress[i].completed

\* ------------------------------------------------------------ client and backend

\* C12: whenever no toggle is in flight, isCompleted of every problem is the
\* flag of the last update for it the backend accepted since the load, or the
\* loaded flag (false without a record) when it accepted none.
C12_AgreesAtQuiescence ==
    calls = {} => \A p \in Problems : isProblemCompleted(p) = backendCompleted[p]

\* ------------------------------------------------------------ overlapping refreshes

\* A refresh started after f has already settled.
NewerSettled(f) == \E g \in (f + 1)..nextFetch : g \notin fetches

\* C13: when refreshes overlap and their responses arrive in any order, the
\* response of an older refresh never overwrites what a newer one put on
\* display, so that once all have resolved the topics and the statistics are
\* both those of the refresh started last.
C13_OlderNeverOverwrites ==
    [][\A f \in fetches :
          (fetches' = fetches \ {f} /\ NewerSettled(f))
              => (topics' = topics /\ stats' = stats)]_vars

====
